---- MODULE Spec2Model ----
(***************************************************************************)
(* transdoc: the tokenizer (tokenizer.rs), the combinator primitives       *)
(* (components.rs), the chapter grammar (parser.rs), the error model       *)
(* (errors.rs) and the dictionary resolution pass (syntax.rs).             *)
(*                                                                         *)
(* Text is a sequence of one-character strings.  A cursor (TokenList) is   *)
(* the token sequence t together with the number i of tokens already       *)
(* consumed; a grammar rule maps (t, i) to a result record                 *)
(*   [ok, pos, val, ty, far]                                               *)
(* where, on success, pos is the advanced cursor and val the value, and,   *)
(* on failure, pos is the cursor carried by the error (internal.input)     *)
(* and ty its ParseErrorType.                                              *)
(***************************************************************************)
EXTENDS Integers, Sequences, FiniteSets, TLC

VARIABLES
    pc,          \* position of the running operation
    dictionary,  \* Chapter.dictionary: word -> list of meanings
    sentences,   \* Chapter.sentences, each given by its `original` fragments
    chapter0,    \* the Chapter as it was handed to the first process() call
    si,          \* process(): index of the sentence being visited
    fi,          \* process(): index of the fragment being visited
    runs,        \* number of process() calls that have returned
    txt,         \* the input text of get_tokens / from_str / a grammar rule
    unread,      \* all_tokens: the input not yet consumed
    tokens,      \* the tokens produced so far / the token vector
    result,      \* what the operation returned
    scan         \* ParseError::new: the state of its loop over the tokens

vars == <<pc, dictionary, sentences, chapter0, si, fi, runs, txt, unread, tokens, result, scan>>

procVars == <<dictionary, sentences, chapter0, si, fi, runs>>

textVars == <<txt, unread, tokens, result, scan>>

(***************************************************************************)
(* Bounds of the model.                                                    *)
(***************************************************************************)
MaxFrags == 3

MaxRuns == 2

MaxLen == 3

MaxChunks == 3

MaxErrLen == 4

MaxBlocks == 3

MaxBody == 4

MaxLines == 3

MaxTag == 3

MaxPlain == 3

MaxAny == 4

(***************************************************************************)
(* Generic helpers.                                                        *)
(***************************************************************************)
\* Bind(v, F) is F(v) with v evaluated once, before F is applied.
Bind(v, F(_)) == CHOOSE y \in {F(x) : x \in {v}} : TRUE

RECURSIVE SeqsUpTo(_, _)
SeqsUpTo(S, n) ==
    IF n = 0 THEN {<<>>}
    ELSE Bind(SeqsUpTo(S, n - 1), LAMBDA shorter :
            shorter \cup {Append(s, e) : s \in {q \in shorter : Len(q) = n - 1}, e \in S})

RECURSIVE Flatten(_)
Flatten(ss) ==
    IF ss = <<>> THEN <<>> ELSE Head(ss) \o Flatten(Tail(ss))

(***************************************************************************)
(* syntax.rs: OrgFragment and Chapter::process.                            *)
(***************************************************************************)
Simple(s) == [k |-> "Simple", s |-> s, m |-> <<>>]

Meaning(s, m) == [k |-> "Meaning", s |-> s, m |-> m]

DictLookup(s) == [k |-> "DictLookup", s |-> s, m |-> <<>>]

ProcWords == {"x", "y"}

ProcMeanings == {<<"m1">>, <<"m2">>}

\* Fragments over two words: x is defined with either meaning list and looked
\* up, y is defined in the text only.
ProcFragments ==
    {Simple("t"), DictLookup("x"), Meaning("y", <<"m1">>)}
        \cup {Meaning("x", m) : m \in ProcMeanings}

\* Dictionaries as load_dictionary or an earlier pass may have left them.
ProcDictionaries ==
    {d \in UNION {[D -> ProcMeanings] : D \in SUBSET ProcWords} :
        "y" \in DOMAIN d => d["y"] = <<"m2">>}

\* The chapters process() is run on: two sentences sharing at most MaxFrags
\* fragments, over any dictionary.
ProcChapters ==
    UNION {{[dictionary |-> d,
             sentences |-> <<SubSeq(fs, 1, cut), SubSeq(fs, cut + 1, Len(fs))>>] :
                d \in ProcDictionaries, cut \in 0..Len(fs)} :
            fs \in SeqsUpTo(ProcFragments, MaxFrags)}

InitProcess ==
    /\ \E c \in ProcChapters :
        /\ dictionary = c.dictionary
        /\ sentences = c.sentences
        /\ chapter0 = c
    /\ pc = "idle"
    /\ si = 0
    /\ fi = 0
    /\ runs = 0
    /\ txt = <<>>
    /\ unread = <<>>
    /\ tokens = <<>>
    /\ result = <<>>
    /\ scan = <<>>

\* `for s in &mut self.sentences` / `for w in &mut s.original`: the cursor
\* after the fragment at (s, f), skipping sentences without fragments.
RECURSIVE NextFrag(_, _, _)
NextFrag(ss, s, f) ==
    IF s > Len(ss) THEN <<s, 1>>
    ELSE IF f + 1 <= Len(ss[s]) THEN <<s, f + 1>>
    ELSE NextFrag(ss, s + 1, 0)

AtFragment == pc = "process" /\ si <= Len(sentences)

Advance ==
    /\ si' = NextFrag(sentences, si, fi)[1]
    /\ fi' = NextFrag(sentences, si, fi)[2]

\* The Vacant-entry insert of the Meaning arm.
InsertOverwriting(d, w, m) ==
    [x \in DOMAIN d \cup {w} |-> IF x = w THEN m ELSE d[x]]

InsertIfVacant(d, w, m) ==
    IF w \in DOMAIN d THEN d
    ELSE [x \in DOMAIN d \cup {w} |-> IF x = w THEN m ELSE d[x]]

ProcessCall ==
    /\ pc = "idle"
    /\ runs < MaxRuns
    /\ pc' = "process"
    /\ si' = NextFrag(sentences, 1, 0)[1]
    /\ fi' = NextFrag(sentences, 1, 0)[2]
    /\ UNCHANGED <<dictionary, sentences, chapter0, runs>>
    /\ UNCHANGED textVars

VisitSimple ==
    /\ AtFragment
    /\ sentences[si][fi].k = "Simple"
    /\ Advance
    /\ UNCHANGED <<pc, dictionary, sentences, chapter0, runs>>
    /\ UNCHANGED textVars

VisitMeaning ==
    /\ AtFragment
    /\ sentences[si][fi].k = "Meaning"
    /\ dictionary' = InsertIfVacant(dictionary, sentences[si][fi].s, sentences[si][fi].m)
    /\ Advance
    /\ UNCHANGED <<pc, sentences, chapter0, runs>>
    /\ UNCHANGED textVars

VisitDictLookup ==
    /\ AtFragment
    /\ sentences[si][fi].k = "DictLookup"
    /\ sentences' =
        IF sentences[si][fi].s \in DOMAIN dictionary
        THEN [sentences EXCEPT ![si][fi] =
                Meaning(sentences[si][fi].s, dictionary[sentences[si][fi].s])]
        ELSE sentences
    /\ Advance
    /\ UNCHANGED <<pc, dictionary, chapter0, runs>>
    /\ UNCHANGED textVars

ProcessReturn ==
    /\ pc = "process"
    /\ si > Len(sentences)
    /\ pc' = "idle"
    /\ runs' = runs + 1
    /\ UNCHANGED <<dictionary, sentences, chapter0, si, fi>>
    /\ UNCHANGED textVars

NextProcess ==
    \/ ProcessCall
    \/ VisitSimple
    \/ VisitMeaning
    \/ VisitDictLookup
    \/ ProcessReturn

SpecProcess == InitProcess /\ [][NextProcess]_vars

(***************************************************************************)
(* Claims about Chapter::process.                                          *)
(***************************************************************************)
\* The first Meaning fragment for word w in document order (0 if none).
FirstDef(fs, w) ==
    LET defs == {i \in 1..Len(fs) : fs[i].k = "Meaning" /\ fs[i].s = w}
    IN  IF defs = {} THEN 0 ELSE CHOOSE i \in defs : \A j \in defs : i <= j

\* C1: resolution idempotence -- once one process() call has returned, a
\* further call changes neither the dictionary nor any fragment.
C1_SecondRunChangesNothing ==
    [][runs >= 1 => (dictionary' = dictionary /\ sentences' = sentences)]_vars

\* C2: dictionary-first-wins -- x absent from the initial dictionary and
\* defined twice with different meaning lists (m1 first): after process()
\* the entry of x is m1, every DictLookup(x) has become Meaning(x, m1) and
\* every defining fragment of x carries m1.
C2_FirstDefinitionEverywhere ==
    LET fs0 == Flatten(chapter0.sentences)
        fs == Flatten(sentences)
    IN  \A w \in ProcWords :
            LET d1 == FirstDef(fs0, w)
            IN  ( /\ runs >= 1
                  /\ pc = "idle"
                  /\ w \notin DOMAIN chapter0.dictionary
                  /\ d1 # 0
                  /\ \E j \in 1..Len(fs0) :
                        fs0[j].k = "Meaning" /\ fs0[j].s = w /\ fs0[j].m # fs0[d1].m )
                => /\ w \in DOMAIN dictionary
                   /\ dictionary[w] = fs0[d1].m
                   /\ \A j \in 1..Len(fs0) :
                        (fs0[j].k \in {"Meaning", "DictLookup"} /\ fs0[j].s = w)
                            => fs[j] = Meaning(w, fs0[d1].m)

\* C3: the dictionary is only extended by insertion-if-absent -- every step
\* keeps each present word with its meaning list, and a word appears only
\* when a Meaning fragment for it is visited, with that fragment's meanings.
C3_InsertIfAbsentOnly ==
    [][ /\ \A w \in DOMAIN dictionary :
            w \in DOMAIN dictionary' /\ dictionary'[w] = dictionary[w]
        /\ \A w \in DOMAIN dictionary' \ DOMAIN dictionary :
            /\ AtFragment
            /\ sentences[si][fi] = Meaning(w, dictionary'[w]) ]_vars

\* A later definition of an inserted word, with other meanings, was visited.
C3_Witness ==
    /\ runs >= 1
    /\ \E w \in DOMAIN dictionary \ DOMAIN chapter0.dictionary :
        \E j \in 1..Len(Flatten(sentences)) :
            /\ Flatten(sentences)[j].k = "Meaning"
            /\ Flatten(sentences)[j].s = w
            /\ Flatten(sentences)[j].m # dictionary[w]

(***************************************************************************)
(* tokenizer.rs: the token rules over text, and get_tokens.                *)
(* A rule maps the unread text s to [ok, ty, n]: whether it matched, the   *)
(* token type and the number of characters recognised.                     *)
(***************************************************************************)
LexAlphabet == {"a", " ", "\t", "\n", "\r", "#", "<", ">", "@", "=", ";", "-"}

Token(ty, content) == [ty |-> ty, content |-> content]

NoMatch == [ok |-> FALSE, ty |-> "none", n |-> 0]

Match(ty, n) == [ok |-> TRUE, ty |-> ty, n |-> n]

\* tag(p): s starts with the text p.
tag(p, s) == Len(s) >= Len(p) /\ SubSeq(s, 1, Len(p)) = p

\* The length of the longest prefix of s made of characters of set C.
RECURSIVE Span(_, _)
Span(C, s) ==
    IF s # <<>> /\ Head(s) \in C THEN 1 + Span(C, Tail(s)) ELSE 0

\* The length of the longest prefix of s made of characters outside set C.
RECURSIVE SpanNot(_, _)
SpanNot(C, s) ==
    IF s # <<>> /\ Head(s) \notin C THEN 1 + SpanNot(C, Tail(s)) ELSE 0

\* many0 in place of many1: matches the empty text.
whitespace_many0(s) ==
    Match("WhiteSpace", Span({"\t", " "}, s))

whitespace(s) ==
    Bind(Span({"\t", " "}, s), LAMBDA n : IF n >= 1 THEN Match("WhiteSpace", n) ELSE NoMatch)

newline(s) ==
    IF tag(<<"\n", "\r">>, s) THEN Match("NewLine", 2)
    ELSE IF tag(<<"\r", "\n">>, s) THEN Match("NewLine", 2)
    ELSE IF tag(<<"\n">>, s) THEN Match("NewLine", 1)
    ELSE NoMatch

comment(s) ==
    IF tag(<<"#">>, s)
    THEN Match("Comment", 1 + SpanNot({"\n", "\r"}, Tail(s)))
    ELSE NoMatch

symbols(s) ==
    IF tag(<<"<", "<">>, s) THEN Match("AngleStart", 2)
    ELSE IF tag(<<">", ">">>, s) THEN Match("AngleEnd", 2)
    ELSE IF tag(<<"@">>, s) THEN Match("At", 1)
    ELSE IF tag(<<"=">>, s) THEN Match("Equal", 1)
    ELSE IF tag(<<";">>, s) THEN Match("Semicolon", 1)
    ELSE IF tag(<<"-", "-", "-">>, s) THEN Match("Dash", 3)
    ELSE NoMatch

known_token(s) ==
    Bind(whitespace(s), LAMBDA w : IF w.ok THEN w
    ELSE IF newline(s).ok THEN newline(s)
    ELSE IF comment(s).ok THEN comment(s)
    ELSE symbols(s))

character(s) ==
    IF Len(s) >= 1 THEN Match("Char", 1) ELSE NoMatch

\* all_tokens: many0(alt((known_token, character))).  many0 ends with Ok at
\* the first failure of its parser and with an error when the parser
\* succeeds without consuming.
any_token(s) ==
    Bind(known_token(s), LAMBDA k : IF k.ok THEN k ELSE character(s))

\* One round of many0 from the state st = [done, ok, rest, toks].
all_tokens_round(st) ==
    Bind(any_token(st.rest), LAMBDA r :
        IF ~r.ok THEN [st EXCEPT !.done = TRUE]
        ELSE IF r.n = 0 THEN [st EXCEPT !.done = TRUE, !.ok = FALSE]
        ELSE [st EXCEPT !.rest = SubSeq(@, r.n + 1, Len(@)),
                        !.toks = Append(@, Token(r.ty, SubSeq(st.rest, 1, r.n)))])

RECURSIVE all_tokens_rounds(_)
all_tokens_rounds(st) ==
    Bind(all_tokens_round(st), LAMBDA nx : IF nx.done THEN nx ELSE all_tokens_rounds(nx))

all_tokens(input) ==
    all_tokens_rounds([done |-> FALSE, ok |-> TRUE, rest |-> input, toks |-> <<>>])

\* get_tokens: the tokens, or the abort of expect / panic!.
get_tokens(s) ==
    Bind(all_tokens(s), LAMBDA r :
        IF r.ok /\ r.rest = <<>> THEN [ok |-> TRUE, toks |-> r.toks]
        ELSE [ok |-> FALSE, toks |-> <<>>])

TokenText(toks) == Flatten([i \in 1..Len(toks) |-> toks[i].content])

\* get_tokens(s) is called on the text txt.
InitText ==
    /\ unread = txt
    /\ tokens = <<>>
    /\ result = <<>>
    /\ scan = <<>>
    /\ pc = "all_tokens"
    /\ dictionary = <<>>
    /\ sentences = <<>>
    /\ chapter0 = <<>>
    /\ si = 0
    /\ fi = 0
    /\ runs = 0

InitLex ==
    /\ txt \in SeqsUpTo(LexAlphabet, MaxLen)
    /\ InitText

\* One round of many0 in which alt((known_token, character)) matched r.
LexPush(r) ==
    IF r.n = 0
    THEN pc' = "panic" /\ UNCHANGED <<unread, tokens>>
    ELSE /\ tokens' = Append(tokens, Token(r.ty, SubSeq(unread, 1, r.n)))
         /\ unread' = SubSeq(unread, r.n + 1, Len(unread))
         /\ pc' = pc

LexKnownToken ==
    /\ pc = "all_tokens"
    /\ known_token(unread).ok
    /\ LexPush(known_token(unread))
    /\ UNCHANGED <<txt, result, scan>>
    /\ UNCHANGED procVars

LexCharacter ==
    /\ pc = "all_tokens"
    /\ ~known_token(unread).ok
    /\ character(unread).ok
    /\ LexPush(character(unread))
    /\ UNCHANGED <<txt, result, scan>>
    /\ UNCHANGED procVars

\* many0 stops; get_tokens returns the tokens unless text is left.
LexReturn ==
    /\ pc = "all_tokens"
    /\ ~known_token(unread).ok
    /\ ~character(unread).ok
    /\ IF unread = <<>>
       THEN pc' = "tokens" /\ result' = tokens
       ELSE pc' = "panic" /\ result' = result
    /\ UNCHANGED <<txt, unread, tokens, scan>>
    /\ UNCHANGED procVars

NextLex ==
    \/ LexKnownToken
    \/ LexCharacter
    \/ LexReturn

SpecLex == InitLex /\ [][NextLex]_vars

\* C4: lossless lexing -- get_tokens never aborts, every token has
\* non-empty text, and the token texts (followed by the text still unread)
\* concatenate to the input; the returned vector is all_tokens' result and
\* reproduces the input exactly.
C4_LosslessLexing ==
    /\ pc # "panic"
    /\ TokenText(tokens) \o unread = txt
    /\ \A i \in 1..Len(tokens) : tokens[i].content # <<>>
    /\ pc = "tokens" =>
        /\ unread = <<>>
        /\ TokenText(result) = txt
        /\ get_tokens(txt) = [ok |-> TRUE, toks |-> result]

\* An input of several tokens, one of them longer than a character, lexed.
C4_Witness ==
    /\ pc = "tokens"
    /\ Len(result) >= 2
    /\ \E i \in 1..Len(result) : Len(result[i].content) >= 2

(***************************************************************************)
(* errors.rs: ParseErrorType, and the results of grammar rules.            *)
(***************************************************************************)
SyntaxError == [kind |-> "SyntaxError", found |-> "none"]

Incomplete == [kind |-> "Incomplete", found |-> "none"]

TokenMismatch(ty) == [kind |-> "TokenMismatch", found |-> ty]

Max(a, b) == IF a >= b THEN a ELSE b

\* A result holds its value as a sequence, <<v>> for Ok and <<>> for Err.
\* It also records `far`, the furthest cursor at which a rule tried while
\* computing it failed (-1 when none did): the failures that alt, many0,
\* opt and separated_list1 backtrack over are kept there.
Ok(p, v) == [ok |-> TRUE, pos |-> p, val |-> <<v>>, ty |-> SyntaxError, far |-> -1]

\* MatchErr: the cursor of internal.input and the error type.
Err(p, ty) == [ok |-> FALSE, pos |-> p, val |-> <<>>, ty |-> ty, far |-> p]

Tried(res, f) == [res EXCEPT !.far = Max(@, f)]

(***************************************************************************)
(* The nom combinators the grammar is built from, with MatchErr's          *)
(* ParseError impl (errors.rs): from_error_kind gives SyntaxError at the   *)
(* given input, append keeps the inner error, or keeps the first error.    *)
(* A rule is applied to the token list t and the cursor i, the number of   *)
(* tokens consumed before it.  In a definition,                            *)
(*     CHOOSE y \in {e : x \in {v}} : TRUE                                 *)
(* is e with x standing for the result v, computed once.                   *)
(***************************************************************************)
\* alt((P, Q)): the first success; when both fail, P's error (e1.or(e2)
\* is e1, and append returns it unchanged).
alt(P(_, _), Q(_, _), t, i) ==
    CHOOSE y \in
        {IF p.ok THEN p
         ELSE (CHOOSE z \in
                {IF q.ok THEN Tried(q, p.far) ELSE Tried(p, q.far) : q \in {Q(t, i)}} : TRUE)
         : p \in {P(t, i)}} : TRUE

\* One round of many0 / many1 from the state st = [done, ok, j, acc, f]:
\* the cursor j, the values acc so far, and the furthest failure f.
many_round(P(_, _), t, st) ==
    CHOOSE y \in
        {IF ~r.ok THEN [st EXCEPT !.done = TRUE, !.f = Max(@, r.far)]
         ELSE IF r.pos = st.j
              THEN [st EXCEPT !.done = TRUE, !.ok = FALSE, !.f = Max(@, r.far)]
         ELSE [st EXCEPT !.j = r.pos, !.acc = Append(@, r.val[1]), !.f = Max(@, r.far)]
         : r \in {P(t, st.j)}} : TRUE

many_result(st) ==
    IF st.ok THEN Tried(Ok(st.j, st.acc), st.f) ELSE Tried(Err(st.j, SyntaxError), st.f)

many_loop(P(_, _), t, start) ==
    LET RECURSIVE loop(_)
        loop(st) ==
            CHOOSE y \in
                {IF nx.done THEN many_result(nx) ELSE loop(nx)
                 : nx \in {many_round(P, t, st)}} : TRUE
    IN  loop(start)

\* many0(P): the values of P applied until it fails; an error when P
\* succeeds without consuming.
many0(P(_, _), t, i) ==
    many_loop(P, t, [done |-> FALSE, ok |-> TRUE, j |-> i, acc |-> <<>>, f |-> -1])

\* many1(P): as many0, but the first failure of P is the error
\* (append(i, Many1, err) keeps err).
many1(P(_, _), t, i) ==
    CHOOSE y \in
        {IF ~first.ok THEN first
         ELSE many_loop(P, t, [done |-> FALSE, ok |-> TRUE, j |-> first.pos,
                               acc |-> first.val, f |-> first.far])
         : first \in {P(t, i)}} : TRUE

\* preceded(P, Q): Q's value after P.
preceded(P(_, _), Q(_, _), t, i) ==
    CHOOSE y \in
        {IF p.ok THEN [Q(t, p.pos) EXCEPT !.far = Max(@, p.far)] ELSE p
         : p \in {P(t, i)}} : TRUE

\* terminated(P, Q): P's value, then Q.
terminated(P(_, _), Q(_, _), t, i) ==
    CHOOSE y \in
        {IF ~p.ok THEN p
         ELSE [Q(t, p.pos) EXCEPT !.val = IF Len(@) = 0 THEN @ ELSE p.val,
                                  !.far = Max(@, p.far)]
         : p \in {P(t, i)}} : TRUE

\* pair(P, Q): both values.
pair(P(_, _), Q(_, _), t, i) ==
    CHOOSE y \in
        {IF ~p.ok THEN p
         ELSE [Q(t, p.pos) EXCEPT !.val = IF Len(@) = 0 THEN @ ELSE <<<<p.val[1], @[1]>>>>,
                                  !.far = Max(@, p.far)]
         : p \in {P(t, i)}} : TRUE

\* separated_pair(P, S, Q): P's and Q's values, S between them.
separated_pair(P(_, _), S(_, _), Q(_, _), t, i) ==
    pair(LAMBDA tt, ii : terminated(P, S, tt, ii), Q, t, i)

\* delimited(O, P, C): P's value between O and C.
delimited(O(_, _), P(_, _), C(_, _), t, i) ==
    preceded(O, LAMBDA tt, ii : terminated(P, C, tt, ii), t, i)

None == [some |-> FALSE, v |-> <<>>]

Some(v) == [some |-> TRUE, v |-> v]

\* opt(P): Some of P's value, or None without consuming when P fails.
opt(P(_, _), t, i) ==
    CHOOSE y \in
        {IF p.ok THEN Tried(Ok(p.pos, Some(p.val[1])), p.far) ELSE Tried(Ok(i, None), p.far)
         : p \in {P(t, i)}} : TRUE

\* separated_list1(S, P): one P, then (S P) pairs until S or P fails; a
\* separator without an element after it is not consumed.
separated_list1(S(_, _), P(_, _), t, i) ==
    CHOOSE y \in
        {IF ~first.ok THEN first
         ELSE many_loop(LAMBDA tt, ii : preceded(S, P, tt, ii),
                        t, [done |-> FALSE, ok |-> TRUE, j |-> first.pos,
                            acc |-> first.val, f |-> first.far])
         : first \in {P(t, i)}} : TRUE

\* map(P, f): f applied to the value of P's result on success.
map(res, f(_)) ==
    [res EXCEPT !.val = IF Len(@) = 0 THEN @ ELSE <<f(@[1])>>]

(***************************************************************************)
(* components.rs: the combinator primitives.  The token list t holds the  *)
(* tokens in t.tokens and, per named rule r, the results of r at every     *)
(* cursor, computed once by TokenList: memo_r(t, i) is r(t, i).            *)
(***************************************************************************)
\* The `[]` arm reporting a mismatch in place of Incomplete.
one_token_eof_mismatch(ty, t, i) ==
    IF i < Len(t.tokens)
    THEN IF t.tokens[i + 1].ty = ty
         THEN Ok(i + 1, t.tokens[i + 1])
         ELSE Err(i, TokenMismatch(t.tokens[i + 1].ty))
    ELSE Err(i, TokenMismatch(ty))

\* one_token!(name, ty)
one_token(ty, t, i) ==
    IF i < Len(t.tokens)
    THEN IF t.tokens[i + 1].ty = ty
         THEN Ok(i + 1, t.tokens[i + 1])
         ELSE Err(i, TokenMismatch(t.tokens[i + 1].ty))
    ELSE Err(i, Incomplete)

tk_newline(t, i) == one_token("NewLine", t, i)

space(t, i) == one_token("WhiteSpace", t, i)

tk_comment(t, i) == one_token("Comment", t, i)

angle_start(t, i) == one_token("AngleStart", t, i)

angle_end(t, i) == one_token("AngleEnd", t, i)

at(t, i) == one_token("At", t, i)

equal(t, i) == one_token("Equal", t, i)

semicolon(t, i) == one_token("Semicolon", t, i)

dash(t, i) == one_token("Dash", t, i)

tk_character(t, i) == one_token("Char", t, i)

\* string_val: the text of one or more Char / WhiteSpace tokens.
string_val(t, i) ==
    map(many1(LAMBDA tt, ii : alt(tk_character, space, tt, ii), t, i),
        LAMBDA ch : TokenText(ch))

memo_string_val(t, i) == t.string_val[i]

\* many0(space), of maybe_space
many0_space(t, i) == many0(space, t, i)

memo_many0_space(t, i) == t.many0_space[i]

maybe_space(P(_, _), t, i) == preceded(memo_many0_space, P, t, i)

many0_newlines(t, i) ==
    map(many0(LAMBDA tt, ii :
                alt(space, LAMBDA t2, i2 : alt(tk_newline, tk_comment, t2, i2), tt, ii),
              t, i),
        LAMBDA v : <<>>)

memo_many0_newlines(t, i) == t.many0_newlines[i]

\* A line terminator that may be missing: many0_newlines in its place.
many1_newlines_optional(t, i) == memo_many0_newlines(t, i)

many1_newlines(t, i) ==
    map(many1(LAMBDA tt, ii :
                maybe_space(LAMBDA t2, i2 : alt(tk_newline, tk_comment, t2, i2), tt, ii),
              t, i),
        LAMBDA v : <<>>)

memo_many1_newlines(t, i) == t.many1_newlines[i]

maybe_newline(P(_, _), t, i) == preceded(memo_many0_newlines, P, t, i)

newline_terminated(P(_, _), t, i) == terminated(P, memo_many1_newlines, t, i)

(***************************************************************************)
(* parser.rs: the grammar.                                                 *)
(***************************************************************************)
\* The characters str::trim removes.
WhiteChars == {" ", "\t", "\n", "\r"}

\* str::trim: s from its first to its last character outside WhiteChars.
trim(s) ==
    IF \A k \in 1..Len(s) : s[k] \in WhiteChars THEN <<>>
    ELSE SubSeq(s,
                CHOOSE a \in 1..Len(s) :
                    s[a] \notin WhiteChars /\ \A k \in 1..(a - 1) : s[k] \in WhiteChars,
                CHOOSE b \in 1..Len(s) :
                    s[b] \notin WhiteChars /\ \A k \in (b + 1)..Len(s) : s[k] \in WhiteChars)

linetag(t, i) ==
    delimited(at, LAMBDA tt, ii : maybe_space(memo_string_val, tt, ii),
              memo_many1_newlines, t, i)

memo_linetag(t, i) == t.linetag[i]

\* string_val without the trim.
str_untrimmed(t, i) == memo_string_val(t, i)

str_trimmed(t, i) ==
    map(memo_string_val(t, i), LAMBDA v : trim(v))

memo_str_trimmed(t, i) == t.str_trimmed[i]

dict_meaning(t, i) ==
    map(separated_pair(
            memo_str_trimmed,
            LAMBDA tt, ii : maybe_space(equal, tt, ii),
            LAMBDA tt, ii : maybe_space(
                LAMBDA t2, i2 : separated_list1(
                    LAMBDA t3, i3 : maybe_space(semicolon, t3, i3),
                    LAMBDA t3, i3 : maybe_space(memo_str_trimmed, t3, i3),
                    t2, i2),
                tt, ii),
            t, i),
        LAMBDA v : Meaning(v[1], v[2]))

memo_dict_meaning(t, i) == t.dict_meaning[i]

\* map(str_trimmed, OrgFragment::DictLookup)
dict_lookup(t, i) ==
    map(memo_str_trimmed(t, i), LAMBDA v : DictLookup(v))

org_frag_dict(t, i) ==
    delimited(
        angle_start,
        LAMBDA tt, ii :
            maybe_space(LAMBDA t2, i2 : alt(memo_dict_meaning, dict_lookup, t2, i2), tt, ii),
        LAMBDA tt, ii : maybe_space(angle_end, tt, ii),
        t, i)

memo_org_frag_dict(t, i) == t.org_frag_dict[i]

lines_separator(t, i) ==
    newline_terminated(
        LAMBDA tt, ii : preceded(
            dash,
            LAMBDA t2, i2 : maybe_space(LAMBDA t3, i3 : opt(memo_str_trimmed, t3, i3), t2, i2),
            tt, ii),
        t, i)

memo_lines_separator(t, i) == t.lines_separator[i]

key_val(t, i) ==
    separated_pair(
        memo_str_trimmed,
        LAMBDA tt, ii : maybe_space(equal, tt, ii),
        LAMBDA tt, ii : maybe_space(memo_str_trimmed, tt, ii),
        t, i)

memo_key_val(t, i) == t.key_val[i]

\* map(string_val, OrgFragment::Simple)
org_frag_simple(t, i) ==
    map(memo_string_val(t, i), LAMBDA v : Simple(v))

original_sentence(t, i) ==
    newline_terminated(
        LAMBDA tt, ii :
            many0(LAMBDA t2, i2 : alt(memo_org_frag_dict, org_frag_simple, t2, i2), tt, ii),
        t, i)

memo_original_sentence(t, i) == t.original_sentence[i]

\* An insert that keeps the value of a key already present.
insert_if_absent(m, k, v) ==
    IF k \in DOMAIN m THEN m ELSE [x \in DOMAIN m \cup {k} |-> IF x = k THEN v ELSE m[x]]

\* HashMap::insert
insert(m, k, v) ==
    [x \in DOMAIN m \cup {k} |-> IF x = k THEN v ELSE m[x]]

\* vals.into_iter().collect() into a HashMap: the pairs inserted in order, a
\* later pair replacing an earlier one of the same key.
RECURSIVE collect(_)
collect(pairs) ==
    CHOOSE y \in
        {IF ps = <<>> THEN <<>>
         ELSE (CHOOSE z \in
                {insert(m, ps[Len(ps)][1], ps[Len(ps)][2])
                 : m \in {collect(SubSeq(ps, 1, Len(ps) - 1))}} : TRUE)
         : ps \in {pairs}} : TRUE

attrs(t, i) ==
    map(many0(LAMBDA tt, ii :
                newline_terminated(LAMBDA t2, i2 : maybe_newline(memo_key_val, t2, i2), tt, ii),
              t, i),
        LAMBDA vals : collect(vals))

memo_attrs(t, i) == t.attrs[i]

Translation(content, a) == [content |-> content, attrs |-> a]

tl_sentence(t, i) ==
    map(pair(LAMBDA tt, ii : newline_terminated(memo_string_val, tt, ii),
             LAMBDA tt, ii : maybe_newline(memo_attrs, tt, ii),
             t, i),
        LAMBDA v : Translation(v[1], v[2]))

memo_tl_sentence(t, i) == t.tl_sentence[i]

\* usize::to_string
Digits == <<"0", "1", "2", "3", "4", "5", "6", "7", "8", "9">>

RECURSIVE to_string(_)
to_string(n) ==
    IF n < 10 THEN <<Digits[n + 1]>>
    ELSE to_string(n \div 10) \o <<Digits[(n % 10) + 1]>>

\* The index counted from 1.
label_translations_from_one(tls) ==
    [n \in 1..Len(tls) |->
        <<IF tls[n][1].some THEN tls[n][1].v ELSE to_string(n), tls[n][2]>>]

\* .enumerate().map(|(i, (l, c))| (l.unwrap_or_else(|| i.to_string()), c))
label_translations(tls) ==
    [n \in 1..Len(tls) |->
        <<IF tls[n][1].some THEN tls[n][1].v ELSE to_string(n - 1), tls[n][2]>>]

Sentence(label, org, a, tls) ==
    [label |-> label, original |-> org, orgattrs |-> a,
     translations |-> collect(label_translations(tls))]

\* many0(pair(maybe_newline(lines_separator), maybe_newline(tl_sentence)))
translation_blocks(t, i) ==
    many0(LAMBDA tt, ii :
            pair(LAMBDA t2, i2 : maybe_newline(memo_lines_separator, t2, i2),
                 LAMBDA t2, i2 : maybe_newline(memo_tl_sentence, t2, i2),
                 tt, ii),
          t, i)

memo_translation_blocks(t, i) == t.translation_blocks[i]

sentence(t, i) ==
    map(pair(memo_linetag,
             LAMBDA tt, ii : pair(
                LAMBDA t2, i2 : maybe_newline(memo_original_sentence, t2, i2),
                LAMBDA t2, i2 : pair(
                    LAMBDA t3, i3 : maybe_newline(memo_attrs, t3, i3),
                    memo_translation_blocks,
                    t2, i2),
                tt, ii),
             t, i),
        LAMBDA v : Sentence(v[1], v[2][1], v[2][2][1], v[2][2][2]))

memo_sentence(t, i) == t.sentence[i]

TitleKey == <<"t", "i", "t", "l", "e">>

LanguageKey == <<"l", "a", "n", "g", "u", "a", "g", "e">>

\* Chapter, without tl_languages and dictionary: they are read from the
\* `tranlations` and `dictionary` attributes (the latter through the file
\* system), keys that no text over the alphabets below can spell.
Chapter(a, s) ==
    [title |-> IF TitleKey \in DOMAIN a THEN a[TitleKey] ELSE <<"Unnamed Chapter">>,
     language |-> IF LanguageKey \in DOMAIN a THEN a[LanguageKey] ELSE <<"english">>,
     sentences |-> s,
     attrs |-> a]

\* many0(maybe_newline(sentence))
chapter_sentences(t, i) ==
    many0(LAMBDA tt, ii : maybe_newline(memo_sentence, tt, ii), t, i)

chapter(t, i) ==
    map(pair(memo_attrs, chapter_sentences, t, i), LAMBDA v : Chapter(v[1], v[2]))

\* The results of rule R at every cursor of t.
Table(R(_, _), t) == [i \in 0..Len(t.tokens) |-> R(t, i)]

\* TokenList::new(&tokens), with the tables of the named rules, each built
\* from the tables of the rules it calls.
TokenList(toks) ==
    CHOOSE t \in
        {[t7 EXCEPT !.sentence = Table(sentence, t7)] : t7 \in
        {[t6 EXCEPT !.translation_blocks = Table(translation_blocks, t6)] : t6 \in
        {[t5 EXCEPT !.original_sentence = Table(original_sentence, t5),
                    !.tl_sentence = Table(tl_sentence, t5)] : t5 \in
        {[t4 EXCEPT !.org_frag_dict = Table(org_frag_dict, t4),
                    !.attrs = Table(attrs, t4)] : t4 \in
        {[t3 EXCEPT !.linetag = Table(linetag, t3),
                    !.dict_meaning = Table(dict_meaning, t3),
                    !.key_val = Table(key_val, t3),
                    !.lines_separator = Table(lines_separator, t3)] : t3 \in
        {[t2 EXCEPT !.str_trimmed = Table(str_trimmed, t2),
                    !.many1_newlines = Table(many1_newlines, t2)] : t2 \in
        {[t1 EXCEPT !.string_val = Table(string_val, t1),
                    !.many0_space = Table(many0_space, t1),
                    !.many0_newlines = Table(many0_newlines, t1)] : t1 \in
        {[tokens |-> toks, string_val |-> <<>>, many0_space |-> <<>>,
          many0_newlines |-> <<>>, str_trimmed |-> <<>>, many1_newlines |-> <<>>,
          linetag |-> <<>>, dict_meaning |-> <<>>, key_val |-> <<>>,
          lines_separator |-> <<>>, org_frag_dict |-> <<>>, attrs |-> <<>>,
          original_sentence |-> <<>>, tl_sentence |-> <<>>,
          translation_blocks |-> <<>>, sentence |-> <<>>]}}}}}}}} : TRUE

(***************************************************************************)
(* errors.rs: ParseError::new(tokens, rest, ty), rest being tokens         *)
(* without its first p.  scan = [p, ty, i, line, lstart] is the state of   *)
(* its first loop, over the p consumed tokens.                             *)
(***************************************************************************)
\* str::len: the length of a text in UTF-8 bytes; "W" stands for a
\* character outside ASCII, of three bytes.
str_len(s) == Len(s) + 2 * Cardinality({k \in 1..Len(s) : s[k] = "W"})

\* let mut line = 1; let mut lstart = 0;
scan_start(p, ty) == [p |-> p, ty |-> ty, i |-> 0, line |-> 1, lstart |-> 0]

\* `lstart = i` in place of `lstart = i + 1`.
scan_token_lstart_i(sc, tk) ==
    IF tk.ty = "NewLine"
    THEN [sc EXCEPT !.i = @ + 1, !.line = @ + 1, !.lstart = sc.i]
    ELSE [sc EXCEPT !.i = @ + 1]

\* One round of `for (i, t) in tokens.iter().enumerate()`, on the token tk.
scan_token(sc, tk) ==
    IF tk.ty = "NewLine"
    THEN [sc EXCEPT !.i = @ + 1, !.line = @ + 1, !.lstart = sc.i + 1]
    ELSE [sc EXCEPT !.i = @ + 1]

\* The tokens of rest pushed on curr_line: those before its first NewLine.
RECURSIVE rest_of_line(_, _)
rest_of_line(toks, p) ==
    IF p >= Len(toks) \/ toks[p + 1].ty = "NewLine" THEN <<>>
    ELSE <<toks[p + 1]>> \o rest_of_line(toks, p + 1)

\* After the first loop: col, curr_line and linestr.
parse_error(toks, sc) ==
    [ty |-> sc.ty,
     line |-> sc.line,
     col |-> str_len(TokenText(SubSeq(toks, sc.lstart + 1, sc.p))) + 1,
     linestr |-> TokenText(SubSeq(toks, sc.lstart + 1, sc.p) \o rest_of_line(toks, sc.p))]

ScanToken ==
    /\ pc = "ParseError::new"
    /\ scan.i < scan.p
    /\ scan' = scan_token(scan, tokens[scan.i + 1])
    /\ UNCHANGED <<pc, txt, unread, tokens, result>>
    /\ UNCHANGED procVars

ScanReturn ==
    /\ pc = "ParseError::new"
    /\ scan.i = scan.p
    /\ result' = [result EXCEPT !.value = parse_error(tokens, scan)]
    /\ pc' = "done"
    /\ UNCHANGED <<txt, unread, tokens, scan>>
    /\ UNCHANGED procVars

(***************************************************************************)
(* parser.rs: Chapter::from_str.                                           *)
(***************************************************************************)
\* maybe_newline(sentence).parse(rest)
reparse_residual(t, i) == maybe_newline(memo_sentence, t, i)

\* Ok(chapter) without the rest.is_empty() test.
from_str_match_lenient(t, c) ==
    IF c.ok
    THEN [status |-> "Ok", value |-> c.val[1], rest |-> c.pos, at |-> c.pos,
          far |-> c.far, ty |-> c.ty]
    ELSE [status |-> "Err", value |-> <<>>, rest |-> 0, at |-> c.pos, far |-> c.far,
          ty |-> c.ty]

\* What from_str does with the result c of the chapter rule: status "Ok"
\* with the chapter, "Err" with the error type ty and the cursor `at`
\* handed to ParseError::new, or "panic" for the abort of expect_err; rest
\* is where the chapter rule stopped, far the furthest cursor at which a
\* rule failed.
from_str_match(t, c) ==
    IF c.ok
    THEN IF c.pos = Len(t.tokens)
         THEN [status |-> "Ok", value |-> c.val[1], rest |-> c.pos, at |-> c.pos,
               far |-> c.far, ty |-> c.ty]
         ELSE CHOOSE y \in
                {[status |-> IF e.ok THEN "panic" ELSE "Err", value |-> <<>>,
                  rest |-> c.pos, at |-> e.pos, far |-> Max(c.far, e.far), ty |-> e.ty]
                 : e \in {reparse_residual(t, c.pos)}} : TRUE
    ELSE [status |-> "Err", value |-> <<>>, rest |-> 0, at |-> c.pos, far |-> c.far,
          ty |-> c.ty]

from_str_tokens(toks) ==
    CHOOSE y \in
        {CHOOSE z \in {from_str_match(t, c) : c \in {chapter(t, 0)}} : TRUE
         : t \in {TokenList(toks)}} : TRUE

\* Pieces of chapter text: a sentence, a tag line, a text line, a separator
\* line, bare text, a stray `=`, a line end, a space, an annotation and a
\* comment.
ChapterChunks ==
    { <<"@", "s", "\n", "a", "\n">>, <<"@", "s", "\n">>, <<"a", "\n">>,
      <<"-", "-", "-", "\n">>, <<"a">>, <<"=">>, <<"\n">>, <<" ">>,
      <<"<", "<", "a", ">", ">">>, <<"#", "c">> }

\* "@s1\n", and a chapter with metadata, an annotated sentence and a translation.
ExampleTagOnly == <<"@", "s", "1", "\n">>

ExampleChapter ==
    <<"k", "=", "v", "\n", "@", "s", "\n", "H", " ", "<", "<", "w", ">", ">", "\n",
      "-", "-", "-", "\n", "B", "\n">>

ChapterTexts ==
    {Flatten(cs) : cs \in SeqsUpTo(ChapterChunks, MaxChunks)}
        \cup {ExampleTagOnly, ExampleChapter}

InitChapter ==
    /\ txt \in ChapterTexts
    /\ InitText

\* match chapter(TokenList::new(&tokens)).finish() { ... }, get_tokens
\* having returned the tokens.
FromStrChapter ==
    /\ pc = "tokens"
    /\ result' = from_str_tokens(tokens)
    /\ pc' = CASE result'.status = "Ok" -> "done"
               [] result'.status = "Err" -> "ParseError::new"
               [] OTHER -> "panic"
    /\ scan' = IF result'.status = "Err" THEN scan_start(result'.at, result'.ty) ELSE scan
    /\ UNCHANGED <<txt, unread, tokens>>
    /\ UNCHANGED procVars

NextChapter ==
    \/ LexKnownToken
    \/ LexCharacter
    \/ LexReturn
    \/ FromStrChapter
    \/ ScanToken
    \/ ScanReturn

SpecChapter == InitChapter /\ [][NextChapter]_vars

\* The number of `@` tokens: each can only be consumed as the tag of a
\* sentence.
AtTokens(toks) == Cardinality({k \in 1..Len(toks) : toks[k].ty = "At"})

\* C5: no silent truncation -- from_str never aborts; the chapter rule never
\* fails; from_str returns Ok exactly when the chapter rule consumed every
\* token, and then the chapter holds one sentence per `@` of the input;
\* when tokens remain it returns an error, the re-parse of the residual as
\* one more sentence failing.
C5_NoSilentTruncation ==
    /\ pc # "panic"
    /\ pc \in {"ParseError::new", "done"} =>
        LET c == chapter(TokenList(tokens), 0)
        IN  /\ c.ok
            /\ result.status = "Ok" <=> c.pos = Len(tokens)
            /\ result.status = "Err" <=> c.pos < Len(tokens)
            /\ c.pos < Len(tokens) => ~reparse_residual(TokenList(tokens), c.pos).ok
            /\ result.status = "Ok" =>
                /\ result.value = c.val[1]
                /\ Len(result.value.sentences) = AtTokens(tokens)

\* The chapter rule consumed a part of the input and an error was returned.
C5_Witness ==
    /\ pc = "done"
    /\ result.status = "Err"
    /\ result.rest > 0
    /\ result.rest < Len(tokens)

\* C6: when from_str fails, the position of the returned error is the
\* deepest failing cursor, the furthest point at which an attempted grammar
\* rule failed during the parse.
C6_ErrorAtDeepestFailure ==
    (pc = "done" /\ result.status = "Err") => result.at = result.far

\* The input ends right after a linetag line: past the blank space where
\* the chapter rule stopped, linetag consumes all that is left.
EndsAfterLinetag(toks) ==
    LET t == TokenList(toks)
        k == many0_newlines(t, chapter(t, 0).pos).pos
    IN  linetag(t, k).ok /\ linetag(t, k).pos = Len(toks)

\* The text of the tokens after the last NewLine token.
LastLine(toks) ==
    TokenText(SubSeq(toks,
                     1 + Max(0, CHOOSE k \in 0..Len(toks) :
                                /\ k > 0 => toks[k].ty = "NewLine"
                                /\ \A j \in (k + 1)..Len(toks) : toks[j].ty # "NewLine"),
                     Len(toks)))

\* C7: when the input ends right after a sentence's linetag line, from_str
\* fails with an Incomplete (or SyntaxError) error positioned at the end of
\* the input: on the line after the last line end, at the column after
\* what follows it; for "@s1\n" that is line 2, column 1.
C7_IncompleteAtEnd ==
    pc = "done" =>
        /\ EndsAfterLinetag(tokens) =>
            /\ result.status = "Err"
            /\ result.value.ty.kind \in {"Incomplete", "SyntaxError"}
            /\ result.at = Len(tokens)
            /\ result.value.line =
                    1 + Cardinality({k \in 1..Len(tokens) : tokens[k].ty = "NewLine"})
            /\ result.value.col = 1 + str_len(LastLine(tokens))
        /\ txt = ExampleTagOnly =>
            /\ EndsAfterLinetag(tokens)
            /\ result.value.line = 2
            /\ result.value.col = 1

\* A sentence was parsed and the input ends after the tag line of the next.
C7_Witness ==
    /\ pc = "done"
    /\ EndsAfterLinetag(tokens)
    /\ result.rest > 0
    /\ result.status = "Err"

(***************************************************************************)
(* ParseError::new on its own: any text, any number p of consumed tokens.  *)
(***************************************************************************)
ErrorAlphabet == {"a", "W", " ", "\n"}

InitError ==
    /\ txt \in SeqsUpTo(ErrorAlphabet, MaxErrLen)
    /\ InitText

\* ParseError::new(tokens, rest, ty) is called, rest being tokens[p..].
ParseErrorNew ==
    /\ pc = "tokens"
    /\ \E p \in 0..Len(tokens), ty \in {SyntaxError, Incomplete} :
        /\ scan' = scan_start(p, ty)
        /\ result' = [status |-> "Err", value |-> <<>>, rest |-> p, at |-> p,
                      far |-> p, ty |-> ty]
    /\ pc' = "ParseError::new"
    /\ UNCHANGED <<txt, unread, tokens>>
    /\ UNCHANGED procVars

NextError ==
    \/ LexKnownToken
    \/ LexCharacter
    \/ LexReturn
    \/ ParseErrorNew
    \/ ScanToken
    \/ ScanReturn

SpecError == InitError /\ [][NextError]_vars

SetMax(S) == CHOOSE m \in S : \A x \in S : x <= m

SetMin(S) == CHOOSE m \in S : \A x \in S : m <= x

\* The number of characters of the text that the first k tokens cover.
CharsOf(toks, k) == Len(TokenText(SubSeq(toks, 1, k)))

\* C8: ParseError::new with p consumed tokens -- line is 1 + the number of
\* NewLine tokens among the first p; column is 1 + the length in bytes of
\* the text consumed after the last of them; the line text is that text
\* followed by the text up to (excluding) the next NewLine token or the end
\* of the input; line and column are at least 1.
C8_LineColumnText ==
    pc = "done" =>
        LET p == scan.p
            nl == {k \in 1..p : tokens[k].ty = "NewLine"}
            from == IF nl = {} THEN 0 ELSE SetMax(nl)
            stops == {k \in (p + 1)..Len(tokens) : tokens[k].ty = "NewLine"}
            upto == IF stops = {} THEN Len(tokens) ELSE SetMin(stops) - 1
            a == CharsOf(tokens, from)
            b == CharsOf(tokens, p)
        IN  /\ result.value.ty = scan.ty
            /\ result.value.line = 1 + Cardinality(nl)
            /\ result.value.col =
                    1 + (b - a) + 2 * Cardinality({j \in (a + 1)..b : txt[j] = "W"})
            /\ result.value.linestr = SubSeq(txt, a + 1, CharsOf(tokens, upto))
            /\ result.value.line >= 1
            /\ result.value.col >= 1

\* An error past the first line, after a wide character, before the end of
\* its line.
C8_Witness ==
    /\ pc = "done"
    /\ result.value.line >= 2
    /\ result.value.col >= 4
    /\ Len(result.value.linestr) >= 2
    /\ scan.p < Len(tokens)
    /\ tokens[scan.p + 1].ty # "NewLine"

(***************************************************************************)
(* The rule `sentence` on its own: a tag line, a text line, and up to      *)
(* MaxBlocks translation blocks, each a separator line and a text line.    *)
(***************************************************************************)
\* Separator lines: without a label, with the label x, with x among
\* spaces, and with the label 1.
SeparatorLines ==
    { <<"-", "-", "-", "\n">>, <<"-", "-", "-", "x", "\n">>,
      <<"-", "-", "-", " ", "x", " ", "\n">>, <<"-", "-", "-", "1", "\n">> }

TranslationLines == { <<"b", "\n">>, <<"c", "\n">> }

SentenceHead == <<"@", "s", "\n", "a", "\n">>

SentenceTexts ==
    {SentenceHead \o Flatten(bs) :
        bs \in SeqsUpTo({s \o l : s \in SeparatorLines, l \in TranslationLines}, MaxBlocks)}

InitSentence ==
    /\ txt \in SentenceTexts
    /\ InitText

\* sentence(TokenList::new(&tokens))
SentenceParse ==
    /\ pc = "tokens"
    /\ result' = (CHOOSE y \in {memo_sentence(t, 0) : t \in {TokenList(tokens)}} : TRUE)
    /\ pc' = "done"
    /\ UNCHANGED <<txt, unread, tokens, scan>>
    /\ UNCHANGED procVars

NextSentence ==
    \/ LexKnownToken
    \/ LexCharacter
    \/ LexReturn
    \/ SentenceParse

SpecSentence == InitSentence /\ [][NextSentence]_vars

\* The separators of the sentence: the positions of its Dash tokens.
Separators(toks) == {k \in 1..Len(toks) : toks[k].ty = "Dash"}

\* The position of the NewLine token that ends the line of token k.
LineEnd(toks, k) == SetMin({j \in k..Len(toks) : toks[j].ty = "NewLine"})

\* What is written after the separator at k on its line, trimmed.
WrittenLabel(toks, k) == trim(TokenText(SubSeq(toks, k + 1, LineEnd(toks, k) - 1)))

Decimal == <<"0", "1", "2", "3", "4", "5", "6", "7", "8", "9">>

\* The label of the separator at k: the written one, or the decimal string
\* of the number of separators before it.
BlockLabel(toks, k) ==
    IF WrittenLabel(toks, k) # <<>> THEN WrittenLabel(toks, k)
    ELSE <<Decimal[Cardinality({j \in Separators(toks) : j < k}) + 1]>>

\* The text line after the separator line at k.
BlockText(toks, k) ==
    TokenText(SubSeq(toks, LineEnd(toks, k) + 1, LineEnd(toks, LineEnd(toks, k) + 1) - 1))

\* C9: `sentence` gives the i-th separator (from 0) the trimmed label written
\* on its line, or the decimal string of i when none is written; the keys of
\* Sentence.translations are exactly these labels, and each label maps to the
\* translation of the last block carrying it.
C9_LabelsLastBlockWins ==
    pc = "done" =>
        /\ result.ok
        /\ result.pos = Len(tokens)
        /\ DOMAIN result.val[1].translations =
                {BlockLabel(tokens, k) : k \in Separators(tokens)}
        /\ \A k \in Separators(tokens) :
                (\A j \in Separators(tokens) :
                    j > k => BlockLabel(tokens, j) # BlockLabel(tokens, k))
                => result.val[1].translations[BlockLabel(tokens, k)]
                        = Translation(BlockText(tokens, k), <<>>)

\* An unlabelled block whose index label is written on a later block with a
\* different translation.
C9_Witness ==
    /\ pc = "done"
    /\ result.ok
    /\ \E k, j \in Separators(tokens) :
        /\ k < j
        /\ WrittenLabel(tokens, k) = <<>>
        /\ WrittenLabel(tokens, j) = BlockLabel(tokens, k)
        /\ BlockText(tokens, k) # BlockText(tokens, j)
        /\ result.val[1].translations[BlockLabel(tokens, k)].content = BlockText(tokens, j)

(***************************************************************************)
(* The rule `org_frag_dict` on its own.                                    *)
(***************************************************************************)
FragAlphabet == {"a", "b", " ", "=", ";"}

\* "<<word = a;b>>", shortened to "<<w = a;b>>".
ExampleMeaning == <<"<", "<", "w", " ", "=", " ", "a", ";", "b", ">", ">">>

\* "x <<a>>" and other texts that do not begin with `<<`.
FragRejected ==
    { <<"x", " ", "<", "<", "a", ">", ">">>, <<" ", "<", "<", "a", ">", ">">>,
      <<"a">>, <<"=", "<", "<", "a", ">", ">">> }

FragTexts ==
    {<<"<", "<">> \o body \o <<">", ">">> : body \in SeqsUpTo(FragAlphabet, MaxBody)}
        \cup FragRejected \cup {ExampleMeaning}

InitFrag ==
    /\ txt \in FragTexts
    /\ InitText

\* org_frag_dict(TokenList::new(&tk))
FragParse ==
    /\ pc = "tokens"
    /\ result' = (CHOOSE y \in {memo_org_frag_dict(t, 0) : t \in {TokenList(tokens)}} : TRUE)
    /\ pc' = "done"
    /\ UNCHANGED <<txt, unread, tokens, scan>>
    /\ UNCHANGED procVars

NextFragText ==
    \/ LexKnownToken
    \/ LexCharacter
    \/ LexReturn
    \/ FragParse

SpecFrag == InitFrag /\ [][NextFragText]_vars

\* The input is `<<`, then Char, WhiteSpace, Equal and Semicolon tokens, then `>>`.
Framed(toks) ==
    /\ Len(toks) >= 2
    /\ toks[1].ty = "AngleStart"
    /\ toks[Len(toks)].ty = "AngleEnd"
    /\ \A k \in 2..(Len(toks) - 1) :
        toks[k].ty \in {"Char", "WhiteSpace", "Equal", "Semicolon"}

Marks(toks, ty) == {k \in 2..(Len(toks) - 1) : toks[k].ty = ty}

HasChar(toks, a, b) == \E k \in a..b : toks[k].ty = "Char"

\* The n-th smallest member of S.
Nth(S, n) == CHOOSE x \in S : Cardinality({y \in S : y < x}) = n - 1

\* The n-th meaning: the tokens between the n-th of the marks `=`, `;` and
\* the next mark or the closing `>>`.
MeaningPiece(toks, n) ==
    LET cuts == Marks(toks, "Equal") \cup Marks(toks, "Semicolon") \cup {Len(toks)}
    IN  SubSeq(toks, Nth(cuts, n) + 1, Nth(cuts, n + 1) - 1)

\* `<<` spaces* w spaces* `>>`
LookupShape(toks) ==
    /\ Framed(toks)
    /\ Marks(toks, "Equal") = {}
    /\ Marks(toks, "Semicolon") = {}
    /\ HasChar(toks, 2, Len(toks) - 1)

\* `<<` spaces* w `=` m1 `;` ... `;` mk spaces* `>>`, w and every m holding
\* a Char token.
MeaningShape(toks) ==
    /\ Framed(toks)
    /\ Cardinality(Marks(toks, "Equal")) = 1
    /\ \A s \in Marks(toks, "Semicolon") : \A e \in Marks(toks, "Equal") : e < s
    /\ HasChar(toks, 2, SetMin(Marks(toks, "Equal")) - 1)
    /\ \A n \in 1..(1 + Cardinality(Marks(toks, "Semicolon"))) :
        HasChar(MeaningPiece(toks, n), 1, Len(MeaningPiece(toks, n)))

\* C10: org_frag_dict consumes all of `<<` spaces* w spaces* `>>` and yields
\* DictLookup(trim(w)); it consumes all of `<<` spaces* w `=` m1 `;` ... `;`
\* mk spaces* `>>` and yields Meaning(trim(w), [trim(m1), ..., trim(mk)]),
\* the meanings in source order; it fails when the first token is not `<<`.
C10_AnnotationShapes ==
    pc = "done" =>
        /\ LookupShape(tokens) =>
            /\ result.ok
            /\ result.pos = Len(tokens)
            /\ result.val[1] = DictLookup(trim(TokenText(SubSeq(tokens, 2, Len(tokens) - 1))))
        /\ MeaningShape(tokens) =>
            /\ result.ok
            /\ result.pos = Len(tokens)
            /\ result.val[1] =
                Meaning(trim(TokenText(SubSeq(tokens, 2, SetMin(Marks(tokens, "Equal")) - 1))),
                        [n \in 1..(1 + Cardinality(Marks(tokens, "Semicolon"))) |->
                            trim(TokenText(MeaningPiece(tokens, n)))])
        /\ (Len(tokens) >= 1 /\ tokens[1].ty # "AngleStart") => ~result.ok

\* An annotation with spaces to trim and two different meanings.
C10_Witness ==
    /\ pc = "done"
    /\ MeaningShape(tokens)
    /\ result.ok
    /\ Len(result.val[1].m) = 2
    /\ result.val[1].m[1] # result.val[1].m[2]
    /\ Len(result.val[1].s) < Len(TokenText(SubSeq(tokens, 2, SetMin(Marks(tokens, "Equal")) - 1)))

(***************************************************************************)
(* The rule `attrs` on its own: up to MaxLines lines, each a key/value     *)
(* line, a blank line or a comment line.                                   *)
(***************************************************************************)
\* "a = 1\n", "a = 2\n", "b=1\n", " a=3 \n", a blank line and a comment line.
AttrLines ==
    { <<"a", " ", "=", " ", "1", "\n">>, <<"a", " ", "=", " ", "2", "\n">>,
      <<"b", "=", "1", "\n">>, <<" ", "a", "=", "3", " ", "\n">>,
      <<"\n">>, <<"#", "c", "\n">> }

\* "a = 1\na = 2\n"
ExampleRepeatedKey ==
    <<"a", " ", "=", " ", "1", "\n", "a", " ", "=", " ", "2", "\n">>

AttrTexts == {Flatten(ls) : ls \in SeqsUpTo(AttrLines, MaxLines)}

InitAttrs ==
    /\ txt \in AttrTexts
    /\ InitText

\* attrs(TokenList::new(&tokens))
AttrsParse ==
    /\ pc = "tokens"
    /\ result' = (CHOOSE y \in {memo_attrs(t, 0) : t \in {TokenList(tokens)}} : TRUE)
    /\ pc' = "done"
    /\ UNCHANGED <<txt, unread, tokens, scan>>
    /\ UNCHANGED procVars

NextAttrs ==
    \/ LexKnownToken
    \/ LexCharacter
    \/ LexReturn
    \/ AttrsParse

SpecAttrs == InitAttrs /\ [][NextAttrs]_vars

\* The key/value lines of the block: the positions of its Equal tokens.
KeyValLines(toks) == {k \in 1..Len(toks) : toks[k].ty = "Equal"}

\* The position of the first token of the line of token k.
LineStart(toks, k) ==
    IF \E j \in 1..(k - 1) : toks[j].ty = "NewLine"
    THEN SetMax({j \in 1..(k - 1) : toks[j].ty = "NewLine"}) + 1
    ELSE 1

\* The trimmed key and value of the line whose Equal token is at k.
KeyOf(toks, k) == trim(TokenText(SubSeq(toks, LineStart(toks, k), k - 1)))

ValueOf(toks, k) == trim(TokenText(SubSeq(toks, k + 1, LineEnd(toks, k) - 1)))

\* C11: attrs on a block of key/value lines, blank lines and comment lines
\* succeeds with a mapping whose keys are the trimmed keys of the block, each
\* mapped to the trimmed value of its last line; "a = 1\na = 2\n" gives
\* {a: "2"}.
C11_AttrsLastWriteWins ==
    pc = "done" =>
        /\ result.ok
        /\ DOMAIN result.val[1] = {KeyOf(tokens, k) : k \in KeyValLines(tokens)}
        /\ \A k \in KeyValLines(tokens) :
                (\A j \in KeyValLines(tokens) :
                    j > k => KeyOf(tokens, j) # KeyOf(tokens, k))
                => result.val[1][KeyOf(tokens, k)] = ValueOf(tokens, k)
        /\ txt = ExampleRepeatedKey =>
                result.val[1] = [x \in {<<"a">>} |-> <<"2">>]

\* A key written twice with different values, the second after a blank or
\* comment line.
C11_Witness ==
    /\ pc = "done"
    /\ result.ok
    /\ \E k, j \in KeyValLines(tokens) :
        /\ k < j
        /\ tokens[LineStart(tokens, j) - 2].ty = "NewLine"
           \/ tokens[LineStart(tokens, j) - 2].ty = "Comment"
        /\ KeyOf(tokens, k) = KeyOf(tokens, j)
        /\ ValueOf(tokens, k) # ValueOf(tokens, j)
        /\ result.val[1][KeyOf(tokens, j)] = ValueOf(tokens, j)

(***************************************************************************)
(* The rule `linetag` on its own: `@`, up to MaxTag characters of text and *)
(* spaces, and what follows them.                                          *)
(***************************************************************************)
\* A line end, a Windows line end, a comment, nothing, and a stray `=`.
TagEndings == { <<"\n">>, <<"\r", "\n">>, <<"#", "c">>, <<>>, <<"=">> }

TagTexts ==
    {<<"@">> \o body \o e : body \in SeqsUpTo({"s", " "}, MaxTag), e \in TagEndings}

InitTag ==
    /\ txt \in TagTexts
    /\ InitText

\* linetag(TokenList::new(&tokens))
TagParse ==
    /\ pc = "tokens"
    /\ result' = (CHOOSE y \in {memo_linetag(t, 0) : t \in {TokenList(tokens)}} : TRUE)
    /\ pc' = "done"
    /\ UNCHANGED <<txt, unread, tokens, scan>>
    /\ UNCHANGED procVars

NextTag ==
    \/ LexKnownToken
    \/ LexCharacter
    \/ LexReturn
    \/ TagParse

SpecTag == InitTag /\ [][NextTag]_vars

\* The position of the last token of the run of Char and WhiteSpace tokens
\* that starts at token 2.
TagTextEnd(toks) ==
    SetMax({m \in 1..Len(toks) :
                \A k \in 2..m : toks[k].ty \in {"Char", "WhiteSpace"}})

\* `@` spaces* text spaces*, the text holding a Char token.
TagLine(toks) ==
    /\ Len(toks) >= 2
    /\ toks[1].ty = "At"
    /\ HasChar(toks, 2, TagTextEnd(toks))

\* A NewLine or Comment token follows the text of the tag line.
TagTerminated(toks) ==
    /\ TagTextEnd(toks) < Len(toks)
    /\ toks[TagTextEnd(toks) + 1].ty \in {"NewLine", "Comment"}

\* C12: on a tag line `@` spaces* text spaces* followed by a line
\* terminator, linetag returns the text without its leading and trailing
\* whitespace; it fails when no line terminator follows the tag.
C12_LabelTrimmed ==
    (pc = "done" /\ TagLine(tokens)) =>
        /\ TagTerminated(tokens) =>
            /\ result.ok
            /\ result.val[1] = trim(TokenText(SubSeq(tokens, 2, TagTextEnd(tokens))))
        /\ ~TagTerminated(tokens) => ~result.ok

(***************************************************************************)
(* The rule `original_sentence` on its own: up to MaxPlain characters of   *)
(* text, spaces and line ends, after `@` or not.                           *)
(***************************************************************************)
PlainTexts ==
    {p \o body : p \in {<<>>, <<"@">>}, body \in SeqsUpTo({"a", " ", "\n"}, MaxPlain)}

InitOriginal ==
    /\ txt \in PlainTexts
    /\ InitText

\* original_sentence(TokenList::new(&tk))
OriginalParse ==
    /\ pc = "tokens"
    /\ result' =
        (CHOOSE y \in {memo_original_sentence(t, 0) : t \in {TokenList(tokens)}} : TRUE)
    /\ pc' = "done"
    /\ UNCHANGED <<txt, unread, tokens, scan>>
    /\ UNCHANGED procVars

NextOriginal ==
    \/ LexKnownToken
    \/ LexCharacter
    \/ LexReturn
    \/ OriginalParse

SpecOriginal == InitOriginal /\ [][NextOriginal]_vars

\* C13: original_sentence on a non-empty sequence of Char and WhiteSpace
\* tokens only succeeds and leaves no residual input; on input that begins
\* with `@` it fails.
C13_PlainLineParses ==
    pc = "done" =>
        /\ (Len(tokens) >= 1 /\ \A k \in 1..Len(tokens) : tokens[k].ty \in {"Char", "WhiteSpace"})
            => (result.ok /\ result.pos = Len(tokens))
        /\ (Len(tokens) >= 1 /\ tokens[1].ty = "At") => ~result.ok

(***************************************************************************)
(* The rule `sentence` on any text: the tag `@s`, then up to MaxAny pieces *)
(* of text, spaces, line ends, comments, stray `=` and annotations.        *)
(***************************************************************************)
AnyPieces ==
    { <<"a">>, <<" ">>, <<"\n">>, <<"#">>, <<"=">>, <<"<", "<", "a", ">", ">">> }

AnyTexts == {<<"@", "s">> \o Flatten(ps) : ps \in SeqsUpTo(AnyPieces, MaxAny)}

InitAny ==
    /\ txt \in AnyTexts
    /\ InitText

NextAny ==
    \/ LexKnownToken
    \/ LexCharacter
    \/ LexReturn
    \/ SentenceParse

SpecAny == InitAny /\ [][NextAny]_vars

\* Where original_sentence starts in the sentence parse of toks: after
\* linetag and the blanks that maybe_newline skips.
OriginalStart(toks) ==
    CHOOSE y \in {memo_many0_newlines(t, memo_linetag(t, 0).pos).pos
                  : t \in {TokenList(toks)}} : TRUE

\* C14: a successful sentence parse gives a Sentence with at least one
\* fragment in original; original_sentence starts on a token that is not a
\* WhiteSpace, NewLine or Comment token.
C14_OriginalNeverEmpty ==
    (pc = "done" /\ result.ok) =>
        /\ Len(result.val[1].original) >= 1
        /\ OriginalStart(tokens) < Len(tokens)
        /\ tokens[OriginalStart(tokens) + 1].ty \notin {"WhiteSpace", "NewLine", "Comment"}

\* A sentence parsed with a blank or comment line between its tag line and
\* its original line.
C14_Witness ==
    /\ pc = "done"
    /\ result.ok
    /\ Len(tokens) >= 4
    /\ tokens[3].ty \in {"NewLine", "Comment"}
    /\ tokens[4].ty \in {"WhiteSpace", "NewLine", "Comment"}
    /\ Len(result.val[1].original) >= 1

====
